---------------------------- MODULE Spec2Model ----------------------------
(***************************************************************************)
(* A model of dart/math/SO3Base.hpp: the representation-polymorphic        *)
(* element of SO(3), SO3Base<Derived>.                                     *)
(*                                                                         *)
(* Scalars.  The model computes exactly, over the rotation group of the    *)
(* regular tetrahedron (12 rotations: the identity, the three half turns   *)
(* about the coordinate axes and the eight third turns about the cube      *)
(* diagonals).  Every quantity the three representations store for such a  *)
(* rotation is an integer in a fixed unit:                                 *)
(*   RotationMatrixRep  a 3x3 matrix, entries in {-1, 0, 1};               *)
(*   QuaternionRep      <<w, x, y, z>> holding TWICE the unit quaternion   *)
(*                      (the 24 Hurwitz units; q and -q are one rotation); *)
(*   RotationVectorRep  [m, d]: the 3-vector (m*pi/3) * d/|d|, d an        *)
(*                      integer direction, m the angle in sixths of a turn *)
(*                      (so |v| < pi iff m < 3 and |v| = 2*pi*k iff        *)
(*                      m = 6k).                                           *)
(* Rounding error is therefore absent: a comparison within a tolerance     *)
(* decides exactly as the real-number comparison would.                    *)
(***************************************************************************)
EXTENDS Integers, Sequences, FiniteSets, TLC

(***************************************************************************)
(* Bounds of the model.                                                    *)
(***************************************************************************)
\* rotation vectors span at most this many full turns (|v| <= 2*pi*MaxTurns)
MaxTurns == 1
\* frames the call stack of operator== holds before the stack is exhausted
MaxDepth == 4
\* components of the plain 3-vectors given to Hat and Vee lie in -MaxCoord..MaxCoord
MaxCoord == 2

(***************************************************************************)
(* Fixed-size linear algebra (the external matrix/vector library).         *)
(***************************************************************************)
Dim == 3
TolInv == 1000000

Abs(x) == IF x < 0 THEN -x ELSE x

I3 == << <<1, 0, 0>>, <<0, 1, 0>>, <<0, 0, 1>> >>

Dot(u, v) == u[1] * v[1] + u[2] * v[2] + u[3] * v[3]

Col(A, j) == << A[1][j], A[2][j], A[3][j] >>

Transpose(A) == << Col(A, 1), Col(A, 2), Col(A, 3) >>

MatMul(A, B) ==
  << << Dot(A[1], Col(B, 1)), Dot(A[1], Col(B, 2)), Dot(A[1], Col(B, 3)) >>,
     << Dot(A[2], Col(B, 1)), Dot(A[2], Col(B, 2)), Dot(A[2], Col(B, 3)) >>,
     << Dot(A[3], Col(B, 1)), Dot(A[3], Col(B, 2)), Dot(A[3], Col(B, 3)) >> >>

MatSub(A, B) ==
  << << A[1][1] - B[1][1], A[1][2] - B[1][2], A[1][3] - B[1][3] >>,
     << A[2][1] - B[2][1], A[2][2] - B[2][2], A[2][3] - B[2][3] >>,
     << A[3][1] - B[3][1], A[3][2] - B[3][2], A[3][3] - B[3][3] >> >>

Det(A) ==
    A[1][1] * (A[2][2] * A[3][3] - A[2][3] * A[3][2])
  - A[1][2] * (A[2][1] * A[3][3] - A[2][3] * A[3][1])
  + A[1][3] * (A[2][1] * A[3][2] - A[2][2] * A[3][1])

Trace(A) == A[1][1] + A[2][2] + A[3][3]

VecNeg(v) == << -v[1], -v[2], -v[3] >>

NormSq(v) == Dot(v, v)

(***************************************************************************)
(* Hat and Vee, SO3Base.hpp lines 230-244.  C++ indexes from 0.            *)
(***************************************************************************)
Hat(angleAxis) ==
  << <<0,             -angleAxis[3],  angleAxis[2]>>,
     <<angleAxis[3],   0,            -angleAxis[1]>>,
     <<-angleAxis[2],  angleAxis[1],  0>> >>

VeeTransposed(mat) == << mat[2][3], mat[1][3], mat[2][1] >>

Vee(mat) == << mat[3][2], mat[1][3], mat[2][1] >>


(***************************************************************************)
(* The representations.  SO3Base.hpp names RotationMatrixRep (the          *)
(* canonical one, lines 250, 339, 342) and RotationVectorRep (lines 221,   *)
(* 226); the quaternion representation is the third the design describes.  *)
(***************************************************************************)
RotationMatrixRep == "RotationMatrixRep"
QuaternionRep == "QuaternionRep"
RotationVectorRep == "RotationVectorRep"
SO3CanonicalRep == RotationMatrixRep

Reps == {RotationMatrixRep, QuaternionRep, RotationVectorRep}

is_canonical(rep) == rep = SO3CanonicalRep

(***************************************************************************)
(* The valid payloads of each representation, within the bounds.           *)
(***************************************************************************)
CyclicPerms ==
  { I3,
    << <<0, 0, 1>>, <<1, 0, 0>>, <<0, 1, 0>> >>,
    << <<0, 1, 0>>, <<0, 0, 1>>, <<1, 0, 0>> >> }

EvenSigns ==
  { << <<a, 0, 0>>, <<0, b, 0>>, <<0, 0, a * b>> >> : a, b \in {-1, 1} }

Matrices == { MatMul(D, P) : D \in EvenSigns, P \in CyclicPerms }

Quaternions ==
  { q \in (-2..2) \X (-2..2) \X (-2..2) \X (-2..2) :
      q[1] * q[1] + q[2] * q[2] + q[3] * q[3] + q[4] * q[4] = 4 }

Directions == { d \in {-1, 0, 1} \X {-1, 0, 1} \X {-1, 0, 1} : NormSq(d) \in {1, 3} }

ZeroVector == [m |-> 0, d |-> <<0, 0, 0>>]

\* a third turn (and its multiples) about a diagonal, a half turn (and its
\* multiples) about a coordinate axis
RotationVectors ==
  {ZeroVector} \cup
  { v \in [m : 1..(6 * MaxTurns), d : Directions] :
      \/ NormSq(v.d) = 3 /\ v.m % 2 = 0
      \/ NormSq(v.d) = 1 /\ v.m % 3 = 0 }

RepData(rep) ==
  CASE rep = RotationMatrixRep -> Matrices
    [] rep = QuaternionRep -> Quaternions
    [] rep = RotationVectorRep -> RotationVectors

Elements == UNION { { [rep |-> rep, data |-> x] : x \in RepData(rep) } : rep \in Reps }

(***************************************************************************)
(* The two pivot legs of every representation (detail::SO3).               *)
(***************************************************************************)
SqrtExact(n) == CHOOSE r \in 0..n : r * r = n

\* twice the unit quaternion q/2 -> its rotation matrix
QuatToMat(q) ==
  LET w == q[1]  x == q[2]  y == q[3]  z == q[4]
  IN << << 1 - (y * y + z * z) \div 2, (x * y - w * z) \div 2, (x * z + w * y) \div 2 >>,
        << (x * y + w * z) \div 2, 1 - (x * x + z * z) \div 2, (y * z - w * x) \div 2 >>,
        << (x * z - w * y) \div 2, (y * z + w * x) \div 2, 1 - (x * x + y * y) \div 2 >> >>

\* rotation matrix -> twice the unit quaternion with w >= 0 (w = sqrt(1 + trace)/2)
MatToQuat(R) ==
  LET w == SqrtExact(1 + Trace(R))
  IN IF w > 0
       THEN << w, (R[3][2] - R[2][3]) \div w, (R[1][3] - R[3][1]) \div w,
               (R[2][1] - R[1][2]) \div w >>
       ELSE << 0, 1 + R[1][1], 1 + R[2][2], 1 + R[3][3] >>

\* 2 sin(theta)/|d| and 2 (1 - cos(theta))/|d|^2 for theta = m*pi/3
SinTerm(m, n) ==
  CASE m % 6 = 2 /\ n = 3 -> 1
    [] m % 6 = 4 /\ n = 3 -> -1
    [] OTHER -> 0

CosTerm(m, n) ==
  CASE m % 6 \in {2, 4} /\ n = 3 -> 1
    [] m % 6 = 3 /\ n = 1 -> 4
    [] OTHER -> 0

\* Rodrigues: R = I + sin(theta) Hat(u) + (1 - cos(theta)) Hat(u)^2, u = d/|d|
RotVecToMat(v) ==
  LET n == NormSq(v.d)
      H == Hat(v.d)
      H2 == MatMul(H, H)
      s == SinTerm(v.m, n)
      c == CosTerm(v.m, n)
      E(i, j) == I3[i][j] + (s * H[i][j] + c * H2[i][j]) \div 2
  IN << << E(1, 1), E(1, 2), E(1, 3) >>,
        << E(2, 1), E(2, 2), E(2, 3) >>,
        << E(3, 1), E(3, 2), E(3, 3) >> >>

\* the logarithm: cos(theta) = (trace - 1)/2 with theta in [0, pi]; the axis from
\* the skew part R - R^T = 2 sin(theta) Hat(u), at theta = pi from R + I = 2 u u^T
MatToRotVec(R) ==
  CASE Trace(R) = 3 -> ZeroVector
    [] Trace(R) = 0 -> [m |-> 2, d |-> Vee(MatSub(R, Transpose(R)))]
    [] OTHER -> [m |-> 3,
                 d |-> << (1 + R[1][1]) \div 2, (1 + R[2][2]) \div 2, (1 + R[3][3]) \div 2 >>]

convert_to_canonical_impl(rep, data) ==
  CASE rep = RotationMatrixRep -> data
    [] rep = QuaternionRep -> QuatToMat(data)
    [] rep = RotationVectorRep -> RotVecToMat(data)

convert_to_noncanonical_impl(rep, canonicalData) ==
  CASE rep = RotationMatrixRep -> canonicalData
    [] rep = QuaternionRep -> MatToQuat(canonicalData)
    [] rep = RotationVectorRep -> MatToRotVec(canonicalData)

\* a conversion within one representation copies; any other pivots through the
\* canonical representation
convert_impl(RepFrom, RepTo, data) ==
  IF RepFrom = RepTo
    THEN data
    ELSE convert_to_noncanonical_impl(RepTo, convert_to_canonical_impl(RepFrom, data))

\* the pivot legs convert_impl takes
ConvertSteps(RepFrom, RepTo) ==
  IF RepFrom = RepTo THEN 0
  ELSE IF is_canonical(RepFrom) \/ is_canonical(RepTo) THEN 1 ELSE 2

(***************************************************************************)
(* What each concrete representation class supplies (the derived() calls   *)
(* of SO3Base.hpp) and the remaining detail::SO3 implementations.          *)
(***************************************************************************)
\* a default-constructed payload holds whatever the memory held; every path
\* of SO3Base.hpp that default-constructs (Identity, Random) overwrites it
\* before it is read
\* (the model takes zeros for it)
Uninitialized(rep) ==
  CASE rep = RotationMatrixRep -> << <<0, 0, 0>>, <<0, 0, 0>>, <<0, 0, 0>> >>
    [] rep = QuaternionRep -> <<0, 0, 0, 0>>
    [] rep = RotationVectorRep -> [m |-> 0, d |-> <<0, 0, 0>>]

DefaultConstructed(rep) == [rep |-> rep, data |-> Uninitialized(rep)]

DerivedSetIdentity(rep) ==
  CASE rep = RotationMatrixRep -> I3
    [] rep = QuaternionRep -> <<2, 0, 0, 0>>
    [] rep = RotationVectorRep -> ZeroVector

QuatMul(a, b) ==
  << (a[1] * b[1] - a[2] * b[2] - a[3] * b[3] - a[4] * b[4]) \div 2,
     (a[1] * b[2] + a[2] * b[1] + a[3] * b[4] - a[4] * b[3]) \div 2,
     (a[1] * b[3] - a[2] * b[4] + a[3] * b[1] + a[4] * b[2]) \div 2,
     (a[1] * b[4] + a[2] * b[3] - a[3] * b[2] + a[4] * b[1]) \div 2 >>

\* transpose, conjugate, negated vector
GroupInverse(rep, data) ==
  CASE rep = RotationMatrixRep -> Transpose(data)
    [] rep = QuaternionRep -> << data[1], -data[2], -data[3], -data[4] >>
    [] rep = RotationVectorRep -> [m |-> data.m, d |-> VecNeg(data.d)]

DerivedInvert(rep, data) == GroupInverse(rep, data)

DerivedInverse(rep, data) == GroupInverse(rep, data)

\* the product of two payloads of one representation; rotation vectors have no
\* product of their own and compose through the canonical representation
RepMul(rep, x, y) ==
  CASE rep = RotationMatrixRep -> MatMul(x, y)
    [] rep = QuaternionRep -> QuatMul(x, y)
    [] rep = RotationVectorRep -> MatToRotVec(MatMul(RotVecToMat(x), RotVecToMat(y)))

inplace_group_multiplication_impl(self, other) ==
  RepMul(self.rep, self.data, convert_impl(other.rep, self.rep, other.data))

assign_impl(self, other) == convert_impl(other.rep, self.rep, other.data)

\* closeness of the rotation-matrix images: every entry within tol = 1/tolInv
MatApprox(A, B, tolInv) ==
  \A i \in 1..Dim, j \in 1..Dim : Abs(A[i][j] - B[i][j]) * tolInv <= 1

is_approx_impl(self, other, tolInv) ==
  MatApprox(convert_to_canonical_impl(self.rep, self.data),
            convert_to_canonical_impl(other.rep, other.data), tolInv)

DerivedIsIdentity(rep, data) ==
  MatApprox(convert_to_canonical_impl(rep, data), I3, TolInv)

(***************************************************************************)
(* SO3Base<Derived>, SO3Base.hpp lines 107-333.  An element is             *)
(* [rep, data]; a member function that mutates the receiver is the         *)
(* operator giving the receiver's new value.                               *)
(***************************************************************************)
setRepData(self, data) == [self EXCEPT !.data = data]

getRepData(self) == self.data

OpAssignRaw(self, other) == [self EXCEPT !.data = other.data]

OpAssign(self, other) == [self EXCEPT !.data = assign_impl(self, other)]

OpMulAssign(self, other) ==
  [self EXCEPT !.data = inplace_group_multiplication_impl(self, other)]

\* a const member function gives the receiver as it leaves it and the value
\* it returns
OpMulNoMultiply(self, other) ==
  LET result == self
  IN [self |-> self, result |-> result]

OpMulInPlace(self, other) ==
  [self |-> OpMulAssign(self, other), result |-> OpMulAssign(self, other)]

OpMul(self, other) ==
  LET result == self
  IN [self |-> self, result |-> OpMulAssign(result, other)]

\* derived().setRandom() stores the payload the random source drew
setRandom(self, drawn) == [self EXCEPT !.data = drawn]

setIdentity(self) == [self EXCEPT !.data = DerivedSetIdentity(self.rep)]

isIdentity(self) == DerivedIsIdentity(self.rep, self.data)

IdentityUnset(rep) ==
  LET I == DefaultConstructed(rep)
  IN I

Identity(rep) ==
  LET I == DefaultConstructed(rep)
  IN setIdentity(I)

invert(self) == [self EXCEPT !.data = DerivedInvert(self.rep, self.data)]

getInverseInPlace(self) == [self |-> invert(self), result |-> invert(self)]

getInverse(self) ==
  [self |-> self,
   result |-> [rep |-> self.rep, data |-> DerivedInverse(self.rep, self.data)]]

isApprox(self, other) == is_approx_impl(self, other, TolInv)

ExpNegatedTangent(rep, tangent) ==
  [rep |-> rep,
   data |-> convert_impl(RotationVectorRep, rep, [m |-> tangent.m, d |-> VecNeg(tangent.d)])]

Exp(rep, tangent) ==
  [rep |-> rep, data |-> convert_impl(RotationVectorRep, rep, tangent)]

Log(point) == convert_impl(point.rep, RotationVectorRep, getRepData(point))

toRotationMatrix(self) == convert_to_canonical_impl(self.rep, self.data)

fromRotationMatrixTransposed(self, rotMat) ==
  setRepData(self, convert_to_noncanonical_impl(self.rep, Transpose(rotMat)))

fromRotationMatrix(self, rotMat) ==
  setRepData(self, convert_to_noncanonical_impl(self.rep, rotMat))

getCoordinates(self, RepTo) == convert_impl(self.rep, RepTo, self.data)

isCanonicalAlways(self) == TRUE

isCanonical(self) == is_canonical(self.rep)

\* Canonical(derived()): the converting constructor of the canonical type
CanonicalFrom(self) ==
  [rep |-> SO3CanonicalRep, data |-> convert_impl(self.rep, SO3CanonicalRep, self.data)]

canonical(self) == IF isCanonical(self) THEN self ELSE CanonicalFrom(self)

\* the conversions canonical() performs
canonicalConversions(self) ==
  IF isCanonical(self) THEN 0 ELSE ConvertSteps(self.rep, SO3CanonicalRep)

(***************************************************************************)
(* State.                                                                  *)
(*   obj, ret, last   a program holding two elements and calling their     *)
(*                    member functions: the elements, the value the last   *)
(*                    call returned, and the call that just completed;     *)
(*   p, q, r, laws    three operands and the products of the group laws;   *)
(*   cr, co           an element and the outcome of a conversion on it;    *)
(*   hv, ho           a 3-vector and the outcome of Hat / Vee on it;       *)
(*   eq               one call of operator== between two elements of one   *)
(*                    type.                                                *)
(***************************************************************************)
VARIABLES obj, ret, last, p, q, r, laws, cr, co, hv, ho, eq

storeVars == <<obj, ret, last>>
groupVars == <<p, q, r, laws>>
convVars == <<cr, co>>
hatVars == <<hv, ho>>
vars == <<obj, ret, last, p, q, r, laws, cr, co, hv, ho, eq>>

NoElement == [rep |-> "none", data |-> <<>>]
Idle == [op |-> "idle", i |-> 0, j |-> 0]
NoOutcome == [op |-> "none"]

StoreUnused == obj = <<>> /\ ret = NoElement /\ last = Idle
GroupUnused == p = NoElement /\ q = NoElement /\ r = NoElement /\ laws = NoOutcome
ConvUnused == cr = NoElement /\ co = NoOutcome
HatUnused == hv = <<0, 0, 0>> /\ ho = NoOutcome
EqUnused == eq = [pc |-> "unused"]

(***************************************************************************)
(* Spec: a program that owns two elements, of any two representations,     *)
(* and calls the member functions of SO3Base on them in any order.  Each   *)
(* call is one step; Return ends the statement that made the call (and     *)
(* with it the lifetime of the temporary the call returned).               *)
(***************************************************************************)
Objs == {1, 2}

StoreInit ==
  /\ obj \in [Objs -> { Identity(rep) : rep \in Reps }]
  /\ ret = NoElement
  /\ last = Idle

Called(op, i, j) == [op |-> op, i |-> i, j |-> j]

SetIdentityCall(i) ==
  /\ last = Idle
  /\ obj' = [obj EXCEPT ![i] = setIdentity(obj[i])]
  /\ ret' = NoElement
  /\ last' = Called("setIdentity", i, 0)
  /\ UNCHANGED <<groupVars, convVars, hatVars, eq>>

\* setRandom forwards to the representation, which draws some valid payload
SetRandomCall(i) ==
  /\ last = Idle
  /\ \E drawn \in RepData(obj[i].rep) : obj' = [obj EXCEPT ![i] = setRandom(obj[i], drawn)]
  /\ ret' = NoElement
  /\ last' = Called("setRandom", i, 0)
  /\ UNCHANGED <<groupVars, convVars, hatVars, eq>>

SetRepDataCall(i) ==
  /\ last = Idle
  /\ \E data \in RepData(obj[i].rep) : obj' = [obj EXCEPT ![i] = setRepData(obj[i], data)]
  /\ ret' = NoElement
  /\ last' = Called("setRepData", i, 0)
  /\ UNCHANGED <<groupVars, convVars, hatVars, eq>>

FromRotationMatrixCall(i) ==
  /\ last = Idle
  /\ \E rotMat \in Matrices : obj' = [obj EXCEPT ![i] = fromRotationMatrix(obj[i], rotMat)]
  /\ ret' = NoElement
  /\ last' = Called("fromRotationMatrix", i, 0)
  /\ UNCHANGED <<groupVars, convVars, hatVars, eq>>

InvertCall(i) ==
  /\ last = Idle
  /\ obj' = [obj EXCEPT ![i] = invert(obj[i])]
  /\ ret' = NoElement
  /\ last' = Called("invert", i, 0)
  /\ UNCHANGED <<groupVars, convVars, hatVars, eq>>

GetInverseCall(i) ==
  /\ last = Idle
  /\ obj' = [obj EXCEPT ![i] = getInverse(obj[i]).self]
  /\ ret' = getInverse(obj[i]).result
  /\ last' = Called("getInverse", i, 0)
  /\ UNCHANGED <<groupVars, convVars, hatVars, eq>>

AssignCall(i, j) ==
  /\ last = Idle
  /\ i # j
  /\ obj' = [obj EXCEPT ![i] = OpAssign(obj[i], obj[j])]
  /\ ret' = NoElement
  /\ last' = Called("assign", i, j)
  /\ UNCHANGED <<groupVars, convVars, hatVars, eq>>

MulAssignCall(i, j) ==
  /\ last = Idle
  /\ i # j
  /\ obj' = [obj EXCEPT ![i] = OpMulAssign(obj[i], obj[j])]
  /\ ret' = NoElement
  /\ last' = Called("mulAssign", i, j)
  /\ UNCHANGED <<groupVars, convVars, hatVars, eq>>

\* obj[i] * obj[j]; the right operand is passed by const reference
MulCall(i, j) ==
  /\ last = Idle
  /\ obj' = [obj EXCEPT ![i] = OpMul(obj[i], obj[j]).self]
  /\ ret' = OpMul(obj[i], obj[j]).result
  /\ last' = Called("mul", i, j)
  /\ UNCHANGED <<groupVars, convVars, hatVars, eq>>

CanonicalCall(i) ==
  /\ last = Idle
  /\ ret' = canonical(obj[i])
  /\ last' = Called("canonical", i, 0)
  /\ UNCHANGED <<obj, groupVars, convVars, hatVars, eq>>

\* the temporary a call returned is itself an element: invert it in place
InvertResult ==
  /\ last.op \in {"mul", "getInverse", "canonical"}
  /\ ret' = invert(ret)
  /\ last' = [last EXCEPT !.op = "invertResult"]
  /\ UNCHANGED <<obj, groupVars, convVars, hatVars, eq>>

\* ... or one of the operands of the product is inverted while the product lives
InvertOperand(i) ==
  /\ last.op = "mul"
  /\ i \in {last.i, last.j}
  /\ obj' = [obj EXCEPT ![i] = invert(obj[i])]
  /\ last' = [last EXCEPT !.op = "invertOperand"]
  /\ UNCHANGED <<ret, groupVars, convVars, hatVars, eq>>

Return ==
  /\ last # Idle
  /\ ret' = NoElement
  /\ last' = Idle
  /\ UNCHANGED <<obj, groupVars, convVars, hatVars, eq>>

Init == StoreInit /\ GroupUnused /\ ConvUnused /\ HatUnused /\ EqUnused

Next ==
  \/ \E i \in Objs : SetIdentityCall(i)
  \/ \E i \in Objs : SetRandomCall(i)
  \/ \E i \in Objs : SetRepDataCall(i)
  \/ \E i \in Objs : FromRotationMatrixCall(i)
  \/ \E i \in Objs : InvertCall(i)
  \/ \E i \in Objs : GetInverseCall(i)
  \/ \E i \in Objs, j \in Objs : AssignCall(i, j)
  \/ \E i \in Objs, j \in Objs : MulAssignCall(i, j)
  \/ \E i \in Objs, j \in Objs : MulCall(i, j)
  \/ \E i \in Objs : CanonicalCall(i)
  \/ InvertResult
  \/ \E i \in Objs : InvertOperand(i)
  \/ Return

Spec == Init /\ [][Next]_vars

(***************************************************************************)
(* SpecGroup: the group laws.  An operand p is given; one step forms       *)
(* p * Identity(), or p * p.getInverse(), or, with two more operands q and *)
(* r, both (p * q) * r and p * (q * r).  The operands are every payload of *)
(* at most half a turn, in every representation.                           *)
(***************************************************************************)
GroupOperands == { e \in Elements : e.rep = RotationVectorRep => e.data.m <= 3 }

GroupInit == p \in GroupOperands /\ q = NoElement /\ r = NoElement /\ laws = NoOutcome

Associate ==
  /\ laws = NoOutcome
  /\ \E qq \in GroupOperands, rr \in GroupOperands :
       /\ q' = qq
       /\ r' = rr
       /\ laws' = [op |-> "associate",
                   left |-> OpMul(OpMul(p, qq).result, rr).result,
                   right |-> OpMul(p, OpMul(qq, rr).result).result]
  /\ UNCHANGED <<p, storeVars, convVars, hatVars, eq>>

MultiplyByIdentity ==
  /\ laws = NoOutcome
  /\ \E rep \in Reps :
       /\ q' = Identity(rep)
       /\ laws' = [op |-> "identity", product |-> OpMul(p, Identity(rep)).result]
  /\ UNCHANGED <<p, r, storeVars, convVars, hatVars, eq>>

MultiplyByInverse ==
  /\ laws = NoOutcome
  /\ q' = getInverse(p).result
  /\ laws' = [op |-> "inverse", product |-> OpMul(p, getInverse(p).result).result]
  /\ UNCHANGED <<p, r, storeVars, convVars, hatVars, eq>>

InitGroup == GroupInit /\ StoreUnused /\ ConvUnused /\ HatUnused /\ EqUnused

NextGroup ==
  \/ Associate
  \/ MultiplyByIdentity
  \/ MultiplyByInverse

SpecGroup == InitGroup /\ [][NextGroup]_vars

(***************************************************************************)
(* SpecConv: the conversions.  An element cr is given; one step converts   *)
(* it to another representation and back, maps it through Log and Exp,     *)
(* projects it to the canonical representation twice, or makes an          *)
(* identity.                                                               *)
(***************************************************************************)
ConvInit == cr \in Elements /\ co = NoOutcome

\* r.getCoordinates<B>(), and from an element of B holding it back to r's own
GetCoordinatesRoundTrip(B) ==
  /\ co = NoOutcome
  /\ LET there == [rep |-> B, data |-> getCoordinates(cr, B)]
     IN co' = [op |-> "getCoordinates", there |-> there,
               back |-> setRepData(cr, getCoordinates(there, cr.rep))]
  /\ UNCHANGED <<cr, storeVars, groupVars, hatVars, eq>>

\* SO3<S, B> b; b = r; SO3<S, A> a; a = b;
AssignRoundTrip(B) ==
  /\ co = NoOutcome
  /\ LET there == OpAssign(DefaultConstructed(B), cr)
     IN co' = [op |-> "assign", there |-> there,
               back |-> OpAssign(DefaultConstructed(cr.rep), there)]
  /\ UNCHANGED <<cr, storeVars, groupVars, hatVars, eq>>

\* r.fromRotationMatrix(r.toRotationMatrix())
RotationMatrixRoundTrip ==
  /\ co = NoOutcome
  /\ co' = [op |-> "fromRotationMatrix",
            there |-> [rep |-> SO3CanonicalRep, data |-> toRotationMatrix(cr)],
            back |-> fromRotationMatrix(cr, toRotationMatrix(cr))]
  /\ UNCHANGED <<cr, storeVars, groupVars, hatVars, eq>>

\* Derived::Log(Derived::Exp(v)) for a tangent v
LogOfExp(rep, v) ==
  /\ co = NoOutcome
  /\ co' = [op |-> "Exp", tangent |-> v, point |-> Exp(rep, v), log |-> Log(Exp(rep, v))]
  /\ UNCHANGED <<cr, storeVars, groupVars, hatVars, eq>>

\* Derived::Exp(Derived::Log(r))
ExpOfLog ==
  /\ co = NoOutcome
  /\ co' = [op |-> "Log", tangent |-> Log(cr), point |-> Exp(cr.rep, Log(cr))]
  /\ UNCHANGED <<cr, storeVars, groupVars, hatVars, eq>>

\* r.canonical().canonical()
CanonicalTwice ==
  /\ co = NoOutcome
  /\ co' = [op |-> "canonical",
            first |-> canonical(cr),
            firstConversions |-> canonicalConversions(cr),
            second |-> canonical(canonical(cr)),
            secondConversions |-> canonicalConversions(canonical(cr))]
  /\ UNCHANGED <<cr, storeVars, groupVars, hatVars, eq>>

MakeIdentity(rep) ==
  /\ co = NoOutcome
  /\ co' = [op |-> "Identity", point |-> Identity(rep)]
  /\ UNCHANGED <<cr, storeVars, groupVars, hatVars, eq>>

SetIdentity ==
  /\ co = NoOutcome
  /\ cr' = setIdentity(cr)
  /\ co' = [op |-> "setIdentity", point |-> setIdentity(cr)]
  /\ UNCHANGED <<storeVars, groupVars, hatVars, eq>>

InitConv == ConvInit /\ StoreUnused /\ GroupUnused /\ HatUnused /\ EqUnused

NextConv ==
  \/ \E B \in Reps : GetCoordinatesRoundTrip(B)
  \/ \E B \in Reps : AssignRoundTrip(B)
  \/ RotationMatrixRoundTrip
  \/ \E rep \in Reps, v \in RotationVectors : LogOfExp(rep, v)
  \/ ExpOfLog
  \/ CanonicalTwice
  \/ \E rep \in Reps : MakeIdentity(rep)
  \/ SetIdentity

SpecConv == InitConv /\ [][NextConv]_vars

(***************************************************************************)
(* SpecHat: Hat and Vee on plain integer 3-vectors.                        *)
(***************************************************************************)
Coords == (-MaxCoord)..MaxCoord

\* the skew-symmetric matrix with the entries a, b, c above its diagonal
SkewSymmetric(a, b, c) == << <<0, a, b>>, <<-a, 0, c>>, <<-b, -c, 0>> >>

HatInit == hv \in Coords \X Coords \X Coords /\ ho = NoOutcome

VeeOfHat ==
  /\ ho = NoOutcome
  /\ ho' = [op |-> "Hat", mat |-> Hat(hv), vec |-> Vee(Hat(hv))]
  /\ UNCHANGED <<hv, storeVars, groupVars, convVars, eq>>

HatOfVee ==
  /\ ho = NoOutcome
  /\ LET M == SkewSymmetric(hv[1], hv[2], hv[3])
     IN ho' = [op |-> "Vee", skew |-> M, vec |-> Vee(M), mat |-> Hat(Vee(M))]
  /\ UNCHANGED <<hv, storeVars, groupVars, convVars, eq>>

InitHat == HatInit /\ StoreUnused /\ GroupUnused /\ ConvUnused /\ EqUnused

NextHat ==
  \/ VeeOfHat
  \/ HatOfVee

SpecHat == InitHat /\ [][NextHat]_vars

(***************************************************************************)
(* SpecEq: one call a == b between two elements of one type, SO3Base.hpp   *)
(* lines 147-150.  The call enters the base overload                       *)
(*     bool operator==(const SO3Base& other)                               *)
(* whose body evaluates derived() == other.derived(), two operands of type *)
(* Derived.  If Derived declares an operator== of its own, that one hides  *)
(* the base overloads and is called: it compares the payloads.  If Derived *)
(* declares none (the primary template SO3<S, Rep>, lines 339-340, has an  *)
(* empty body), the candidates are the two base overloads, both reached by *)
(* the same derived-to-base conversion, and the non-template one wins: the *)
(* body calls the overload it is in.  What that endless recursion does is  *)
(* left to the build: it pushes a frame per call until the stack is        *)
(* exhausted, or it is compiled to a jump and loops in one frame, or the   *)
(* loop, having no side effect, is removed and some value is returned.     *)
(***************************************************************************)
Builds == {"frames", "jump", "removed"}

EqInit ==
  \E a \in Elements, b \in Elements, declares \in BOOLEAN, build \in Builds :
    /\ a.rep = b.rep
    /\ eq = [pc |-> "ready", a |-> a, b |-> b, declaresEq |-> declares,
             build |-> build, frames |-> 0, entries |-> 0, result |-> FALSE]

\* a == b binds to the base overload
EqCall ==
  /\ eq.pc = "ready"
  /\ eq' = [eq EXCEPT !.pc = "base", !.frames = 1, !.entries = 1]
  /\ UNCHANGED <<storeVars, groupVars, convVars, hatVars>>

\* derived() == other.derived() binds to the operator== Derived declares
EqDerived ==
  /\ eq.pc = "base"
  /\ eq.declaresEq
  /\ eq' = [eq EXCEPT !.pc = "returned", !.frames = 0,
                      !.result = (eq.a.data = eq.b.data)]
  /\ UNCHANGED <<storeVars, groupVars, convVars, hatVars>>

\* derived() == other.derived() binds to the base overload again: a new frame
EqReenter ==
  /\ eq.pc = "base"
  /\ ~eq.declaresEq
  /\ eq.build = "frames"
  /\ eq.frames < MaxDepth
  /\ eq' = [eq EXCEPT !.frames = @ + 1, !.entries = @ + 1]
  /\ UNCHANGED <<storeVars, groupVars, convVars, hatVars>>

EqStackExhausted ==
  /\ eq.pc = "base"
  /\ ~eq.declaresEq
  /\ eq.build = "frames"
  /\ eq.frames = MaxDepth
  /\ eq' = [eq EXCEPT !.pc = "overflow"]
  /\ UNCHANGED <<storeVars, groupVars, convVars, hatVars>>

\* ... the same, compiled to a jump (the count of entries stops at MaxDepth,
\* the loop does not)
EqLoop ==
  /\ eq.pc = "base"
  /\ ~eq.declaresEq
  /\ eq.build = "jump"
  /\ eq' = [eq EXCEPT !.entries = IF @ < MaxDepth THEN @ + 1 ELSE @]
  /\ UNCHANGED <<storeVars, groupVars, convVars, hatVars>>

\* ... the same, removed by the compiler
EqRemoved ==
  /\ eq.pc = "base"
  /\ ~eq.declaresEq
  /\ eq.build = "removed"
  /\ \E any \in BOOLEAN : eq' = [eq EXCEPT !.pc = "returned", !.frames = 0, !.result = any]
  /\ UNCHANGED <<storeVars, groupVars, convVars, hatVars>>

InitEq == EqInit /\ StoreUnused /\ GroupUnused /\ ConvUnused /\ HatUnused

NextEq ==
  \/ EqCall
  \/ EqDerived
  \/ EqReenter
  \/ EqStackExhausted
  \/ EqLoop
  \/ EqRemoved

SpecEq == InitEq /\ [][NextEq]_vars

(***************************************************************************)
(* Claims about SpecGroup, SpecConv, SpecHat and SpecEq.                   *)
(***************************************************************************)
\* C1: (p*q)*r isApprox p*(q*r); p * Identity() isApprox p; and
\* p * p.getInverse() isApprox Identity(), for operands of any representations.
C1_GroupLaws ==
  /\ laws.op = "associate" => isApprox(laws.left, laws.right)
  /\ laws.op = "identity" => isApprox(laws.product, p)
  /\ laws.op = "inverse" => isApprox(laws.product, Identity(p.rep))

\* three operands of three different representations, the first two of which
\* do not commute
C1_Witness ==
  /\ laws.op = "associate"
  /\ Cardinality({p.rep, q.rep, r.rep}) = 3
  /\ ~isApprox(OpMul(p, q).result, OpMul(q, p).result)
  /\ ~isIdentity(r)

\* C2: converting an element to any representation and back (by
\* getCoordinates, by cross-representation assignment, or through
\* toRotationMatrix and fromRotationMatrix) gives an element that isApprox
\* the original.
C2_RoundTrip ==
  co.op \in {"getCoordinates", "assign", "fromRotationMatrix"} => isApprox(co.back, cr)

\* a round trip between the two non-canonical representations that does not
\* give back the payload it started from
C2_Witness ==
  /\ co.op = "getCoordinates"
  /\ cr.rep = QuaternionRep
  /\ co.there.rep = RotationVectorRep
  /\ co.back # cr
  /\ ~isIdentity(cr)

\* the components of two tangent vectors (m*pi/3) * d/|d| agree within the
\* tolerance: distinct components differ by far more than 1e-6, so they agree
\* exactly, in sign and in square
Sign(x) == IF x > 0 THEN 1 ELSE IF x < 0 THEN -1 ELSE 0

Positive(n) == IF n = 0 THEN 1 ELSE n

TangentApprox(u, v) ==
  \A i \in 1..Dim :
    /\ Sign(u.m * u.d[i]) = Sign(v.m * v.d[i])
    /\ u.m * u.m * u.d[i] * u.d[i] * Positive(NormSq(v.d))
         = v.m * v.m * v.d[i] * v.d[i] * Positive(NormSq(u.d))

\* the rotation angle of an element in [0, pi], in sixths of a turn, from the
\* trace of its rotation matrix: cos(angle) = (trace - 1)/2
RotationAngle(e) ==
  CASE Trace(toRotationMatrix(e)) = 3 -> 0
    [] Trace(toRotationMatrix(e)) = 0 -> 2
    [] Trace(toRotationMatrix(e)) = -1 -> 3

\* C4: Log(Exp(v)) isApprox v componentwise for every tangent v with |v| < pi,
\* and Exp(Log(R)) isApprox R for every R with rotation angle < pi, in every
\* representation.
C4_ExpLogInverse ==
  /\ (co.op = "Exp" /\ co.tangent.m < 3) => TangentApprox(co.log, co.tangent)
  /\ (co.op = "Log" /\ RotationAngle(cr) < 3) => isApprox(co.point, cr)

\* a third turn mapped by Exp into a quaternion and back by Log
C4_Witness ==
  /\ co.op = "Exp"
  /\ co.tangent.m = 2
  /\ co.point.rep = QuaternionRep

\* C5: r.canonical().canonical() is the value r.canonical() is, in the
\* canonical representation; canonical() on a canonical element returns the
\* element with no conversion and otherwise converts exactly once, so the
\* second call converts nothing.
C5_CanonicalIdempotent ==
  co.op = "canonical" =>
    /\ co.second = co.first
    /\ co.first.rep = SO3CanonicalRep
    /\ co.secondConversions = 0
    /\ isCanonical(cr) => (co.first = cr /\ co.firstConversions = 0)
    /\ ~isCanonical(cr) => co.firstConversions = 1

\* canonical() twice on a non-identity element that is not canonical
C5_Witness ==
  /\ co.op = "canonical"
  /\ ~isCanonical(cr)
  /\ co.firstConversions = 1
  /\ ~isIdentity(co.second)

\* C6: Identity() is the identity and so is an element after setIdentity(),
\* in every representation; and Exp(v) is the identity for every v of norm
\* 2*pi*k, k > 0, in every representation, the rotation-vector one included.
C6_IdentityDetected ==
  /\ co.op \in {"Identity", "setIdentity"} => isIdentity(co.point)
  /\ (co.op = "Exp" /\ co.tangent.m > 0 /\ co.tangent.m % 6 = 0) => isIdentity(co.point)

\* Exp of a full turn, kept as a rotation vector
C6_Witness ==
  /\ co.op = "Exp"
  /\ co.tangent.m = 6
  /\ co.point.rep = RotationVectorRep

\* C3: Vee(Hat(v)) = v for every 3-vector v and Hat(Vee(M)) = M for every
\* skew-symmetric M; Hat(v) is [[0,-v2,v1],[v2,0,-v0],[-v1,v0,0]] and Vee(M)
\* is (M(2,1), M(0,2), M(1,0)).
C3_HatVeeInverse ==
  /\ ho.op = "Hat" =>
       /\ ho.vec = hv
       /\ ho.mat = SkewSymmetric(-hv[3], hv[2], -hv[1])
  /\ ho.op = "Vee" =>
       /\ ho.mat = ho.skew
       /\ ho.vec = << ho.skew[3][2], ho.skew[1][3], ho.skew[2][1] >>

\* Hat then Vee of a vector with three different non-zero components
C3_Witness ==
  /\ ho.op = "Hat"
  /\ Cardinality({0, hv[1], hv[2], hv[3]}) = 4

\* C7: a == b between two elements of one type returns, and returns whether
\* the payloads are equal; the base overload is entered once and hands over
\* to a comparison that finishes, whether or not the type declares an
\* operator== of its own.
C7_EqualityTerminates ==
  /\ eq.pc # "overflow"
  /\ eq.entries <= 1
  /\ eq.pc = "returned" => eq.result = (eq.a.data = eq.b.data)

(***************************************************************************)
(* Claims about Spec.                                                      *)
(***************************************************************************)
IsRotationMatrix(R) == MatMul(R, Transpose(R)) = I3 /\ Det(R) = 1

\* the payload is one the representation admits and its rotation-matrix image
\* is orthogonal with determinant +1
IsValidSO3(e) ==
  /\ e.data \in RepData(e.rep)
  /\ IsRotationMatrix(toRotationMatrix(e))

\* C8: getInverse() leaves the receiver unchanged and returns the value the
\* receiver would hold after invert(); the receiver times that value is
\* approximately the identity; and inverting an inverted element restores it.
C8_InverseAgreesAndRestores ==
  [][ /\ last'.op = "getInverse" =>
           /\ obj' = obj
           /\ ret' = invert(obj[last'.i])
           /\ isApprox(OpMul(obj[last'.i], ret').result, Identity(obj[last'.i].rep))
      /\ last'.op = "invert" =>
           /\ obj'[last'.i] = getInverse(obj[last'.i]).result
           /\ invert(obj'[last'.i]) = obj[last'.i]
           /\ \A k \in Objs \ {last'.i} : obj'[k] = obj[k] ]_vars

\* getInverse() was called on an element that is not its own inverse
C8_Witness ==
  /\ last.op = "getInverse"
  /\ ret # obj[last.i]
  /\ ~isIdentity(ret)

\* C9: a * b returns a new value of a's representation, equal to what a copy of
\* a holds after copy *= b, and leaves a and b unchanged; mutating the result
\* afterwards changes neither operand, and mutating an operand changes neither
\* the result nor the other element.
C9_OperatorMulIsPure ==
  [][ /\ last'.op = "mul" =>
           /\ obj' = obj
           /\ ret'.rep = obj[last'.i].rep
           /\ ret' = OpMulAssign(obj[last'.i], obj[last'.j])
      /\ last'.op = "invertResult" => obj' = obj
      /\ last'.op = "invertOperand" =>
           /\ ret' = ret
           /\ \E i \in Objs : \A k \in Objs \ {i} : obj'[k] = obj[k] ]_vars

\* a product of two elements of different representations that differs from
\* its left operand
C9_Witness ==
  /\ last.op = "mul"
  /\ obj[last.i].rep # obj[last.j].rep
  /\ ~isApprox(ret, obj[last.i])
  /\ ~isIdentity(obj[last.i])

\* C10: every element the program holds, and every value a call returned,
\* encodes a member of SO(3).
C10_AlwaysValid ==
  /\ \A i \in Objs : IsValidSO3(obj[i])
  /\ ret # NoElement => IsValidSO3(ret)

\* an element of one representation was just multiplied in place by a
\* non-identity element of another, and is not the identity
C10_Witness ==
  /\ last.op = "mulAssign"
  /\ obj[last.i].rep # obj[last.j].rep
  /\ ~isIdentity(obj[last.i])
  /\ ~isIdentity(obj[last.j])

=============================================================================
